---- MODULE Spec2Model ----
(***************************************************************************)
(* Model of the RFC corridor tile generator (src/main.py).                 *)
(*                                                                         *)
(* Coordinates.  The program works on IEEE doubles in degrees.  The model  *)
(* uses integers on a grid fine enough that every tile edge of every zoom  *)
(* up to MAX_ZOOM is a grid point with grid points strictly between edges: *)
(*   - a longitude is degrees scaled by World/360, so 180 degrees is Half; *)
(*   - a latitude is its Mercator northing ln(tan + sec)/pi scaled by      *)
(*     Half, so the equator is 0 and +-85.0511 degrees is +-Half.  This is *)
(*     a strictly increasing re-labelling of latitudes: it keeps every     *)
(*     comparison, min and max the program makes on latitudes;             *)
(*   - the latitude of the south pole, where tan + sec is not positive and *)
(*     math.log raises, is the grid value SouthPole;                       *)
(*   - the transcendental round trip atan(sinh(.)) -> ln(tan + sec) is not *)
(*     exact in doubles: the latitude tile_to_bbox returns for a tile edge *)
(*     lies a rounding error off the edge, on either side.  The error is   *)
(*     an input of tile_to_bbox drawn from Rounding, in grid steps.        *)
(* Fractional tile coordinates are kept as numerators over World.          *)
(*                                                                         *)
(* Raster.  ImageDraw.line is the imaging library; a buffer is modelled by *)
(* the sequence of strokes that reached its 256 x 256 pixel area, which    *)
(* determines its pixels.  A buffer is empty (getbbox() is None) exactly   *)
(* when no stroke reached it.                                              *)
(***************************************************************************)
EXTENDS Integers, Sequences, FiniteSets, TLC

VARIABLES
    pc,             \* position of the run: main's steps, or a direct call
    features,       \* data["features"], the loaded feature collection
    region,         \* the region box handed to bbox_to_tile_range
    feature_infos,  \* main: list of (feature, fbbox)
    z, x, y,        \* main: loop variables
    range,          \* main: (x_min, x_max, y_min, y_max) of the zoom
    tile_bbox,      \* main: tile_to_bbox(z, x, y)
    img,            \* main: the tile's raster buffer
    width,          \* main: stroke width of the tile
    fi,             \* main: position of the loop over feature_infos
    calls,          \* draw_feature_on_tile invocations for the current tile
    rootExists,     \* OUTPUT_ROOT.exists()
    dirs,           \* directories under OUTPUT_ROOT (paths)
    files,          \* files under OUTPUT_ROOT: path -> content
    tree0,          \* what OUTPUT_ROOT held when the run started
    fn              \* a direct call of one function: arguments and result

vars == <<pc, features, region, feature_infos, z, x, y, range, tile_bbox,
          img, width, fi, calls, rootExists, dirs, files, tree0, fn>>

-----------------------------------------------------------------------------
\* CONFIG

MIN_ZOOM == 4
MAX_ZOOM == 10
TILE_SIZE == 256
DEFAULT_COLOR == <<200, 200, 200>>

RFC_COLORS ==
    ("131" :> <<255, 102, 0>>)   @@ ("132" :> <<255, 51, 136>>) @@
    ("109" :> <<146, 216, 246>>) @@ ("108" :> <<252, 181, 22>>) @@
    ("107" :> <<68, 154, 69>>)   @@ ("106" :> <<89, 160, 152>>) @@
    ("105" :> <<14, 76, 133>>)   @@ ("104" :> <<125, 83, 158>>) @@
    ("103" :> <<120, 76, 41>>)   @@ ("102" :> <<14, 157, 217>>) @@
    ("101" :> <<195, 34, 40>>)

\* Python's None (an absent bounding box), and "nothing returned yet".
None == <<>>

-----------------------------------------------------------------------------
\* The coordinate grid

World == 2 * (2 ^ MAX_ZOOM)      \* grid steps in 360 degrees of longitude
Half == World \div 2             \* 180 degrees; northing of +85.0511 degrees
SouthPole == 0 - (4 * World)     \* latitude -90: ln(tan + sec) is undefined
Rounding == {0 - 1, 0, 1}        \* rounding error of a computed latitude

Min2(a, b) == IF a <= b THEN a ELSE b
Max2(a, b) == IF a >= b THEN a ELSE b
MinOf(S) == CHOOSE m \in S : \A s \in S : m <= s
MaxOf(S) == CHOOSE m \in S : \A s \in S : m >= s
Floor(num) == num \div World     \* math.floor of a numerator over World

-----------------------------------------------------------------------------
\* COORDINATE MATH

\* math.log raises "math domain error" at this latitude.
MathDomainError(lat) == lat <= SouthPole

\* Fractional tile coordinates, as numerators over World.
lonlat_to_tile_xy_float(lon, lat, zz) ==
    LET n == 2 ^ zz
    IN  <<(lon + Half) * n, (Half - lat) * n>>

\* World pixel coordinates (whole pixels wherever World divides TILE_SIZE * n
\* grid steps, which holds at every zoom from MIN_ZOOM on).
latlon_to_world_px(lat, lon, zz) ==
    LET n == 2 ^ zz
    IN  <<((lon + Half) * TILE_SIZE * n) \div World,
          ((Half - lat) * TILE_SIZE * n) \div World>>

latlon_to_tile_px(lat, lon, zz, x_tile, y_tile) ==
    LET w == latlon_to_world_px(lat, lon, zz)
    IN  <<w[1] - x_tile * TILE_SIZE, w[2] - y_tile * TILE_SIZE>>

Clamp(v, n) == Max2(0, Min2(n - 1, v))

\* Faulty variant: it floors and does not clamp.
bbox_to_tile_range_wrong_no_clamp(left, bottom, right, top, zz) ==
    LET lb == lonlat_to_tile_xy_float(left, bottom, zz)
        rt == lonlat_to_tile_xy_float(right, top, zz)
    IN  <<Floor(lb[1]), Floor(rt[1]), Floor(rt[2]), Floor(lb[2])>>

bbox_to_tile_range(left, bottom, right, top, zz) ==
    LET lb == lonlat_to_tile_xy_float(left, bottom, zz)
        rt == lonlat_to_tile_xy_float(right, top, zz)
        n  == 2 ^ zz
    IN  <<Clamp(Floor(lb[1]), n), Clamp(Floor(rt[1]), n),
          Clamp(Floor(rt[2]), n), Clamp(Floor(lb[2]), n)>>

\* e = <<error of lat_top, error of lat_bottom>>, each in Rounding.
mercator_to_lat(tile_y, n) == Half - (tile_y * World) \div n

\* Faulty variant: it ends the box one grid step short of the tile's far edges.
tile_to_bbox_wrong_inside(zz, tx, ty, e) ==
    LET n == 2 ^ zz
    IN  <<(tx * World) \div n - Half,
          mercator_to_lat(ty + 1, n) + 1,
          ((tx + 1) * World) \div n - Half - 1,
          mercator_to_lat(ty, n)>>

tile_to_bbox(zz, tx, ty, e) ==
    LET n == 2 ^ zz
    IN  <<(tx * World) \div n - Half,
          mercator_to_lat(ty + 1, n) + e[2],
          ((tx + 1) * World) \div n - Half,
          mercator_to_lat(ty, n) + e[1]>>

-----------------------------------------------------------------------------
\* FEATURES
\*
\* A feature of the loaded collection.  geometry is "present", "absent" (the
\* feature has no "geometry" member) or "null" (the member is JSON null);
\* gtype is geometry.type; hasCoords says whether geometry has a "coordinates"
\* member, which is `line` for a LineString and `lines` for a MultiLineString;
\* hasIds says whether properties.propertyDisplayValue is there, and ids is it.

Feature(geometry, gtype, hasCoords, line, lines, hasIds, ids) ==
    [geometry |-> geometry, gtype |-> gtype, hasCoords |-> hasCoords,
     line |-> line, lines |-> lines, hasIds |-> hasIds, ids |-> ids]

\* feature.get("geometry", {}) is None for a null member, and None.get raises.
RaisesAttributeError(f) == f.geometry = "null"

geom_type(f) == IF f.geometry = "present" THEN f.gtype ELSE "None"

\* geom.get("coordinates", []) of a LineString / of a MultiLineString
line_coordinates(f) ==
    IF f.geometry = "present" /\ f.hasCoords THEN f.line ELSE <<>>

multi_coordinates(f) ==
    IF f.geometry = "present" /\ f.hasCoords THEN f.lines ELSE <<>>

RECURSIVE all_of(_)
all_of(lines) ==
    IF lines = <<>> THEN <<>> ELSE Head(lines) \o all_of(Tail(lines))

\* Faulty variant: the last recognised ID wins.
get_corridor_color_wrong_last_match(f) ==
    LET ids == IF f.hasIds THEN f.ids ELSE <<>>
        hit == {i \in 1..Len(ids) : ids[i] \in DOMAIN RFC_COLORS}
    IN  IF hit = {} THEN DEFAULT_COLOR ELSE RFC_COLORS[ids[MaxOf(hit)]]

RECURSIVE scan_ids(_, _)
scan_ids(ids, i) ==
    IF i > Len(ids) THEN DEFAULT_COLOR
    ELSE IF ids[i] \in DOMAIN RFC_COLORS THEN RFC_COLORS[ids[i]]
    ELSE scan_ids(ids, i + 1)

get_corridor_color(f) ==
    LET ids == IF f.hasIds THEN f.ids ELSE <<>>
    IN  scan_ids(ids, 1)

\* Faulty variant: it drops the "if not all_coords" guard and the type test: a
\* geometry without vertices gets the box of nothing, one at the origin.
feature_bbox_wrong_no_guard(f) ==
    LET all_coords == IF geom_type(f) = "LineString" THEN line_coordinates(f)
                      ELSE all_of(multi_coordinates(f))
        lons == {all_coords[i][1] : i \in 1..Len(all_coords)} \cup {0}
        lats == {all_coords[i][2] : i \in 1..Len(all_coords)} \cup {0}
    IN  <<MinOf(lons), MinOf(lats), MaxOf(lons), MaxOf(lats)>>

feature_bbox(f) ==
    LET gtype == geom_type(f)
        all_coords == IF gtype = "LineString" THEN line_coordinates(f)
                      ELSE all_of(multi_coordinates(f))
        lons == {all_coords[i][1] : i \in 1..Len(all_coords)}
        lats == {all_coords[i][2] : i \in 1..Len(all_coords)}
    IN  IF gtype \notin {"LineString", "MultiLineString"} THEN None
        ELSE IF all_coords = <<>> THEN None
        ELSE <<MinOf(lons), MinOf(lats), MaxOf(lons), MaxOf(lats)>>

\* Faulty variant: boxes that only touch do not intersect.
bbox_intersects_wrong_strict(a, b) ==
    IF b = None THEN FALSE
    ELSE ~(a[3] <= b[1] \/ a[1] >= b[3] \/ a[4] <= b[2] \/ a[2] >= b[4])

bbox_intersects(a, b) ==
    IF b = None THEN FALSE
    ELSE ~(a[3] < b[1] \/ a[1] > b[3] \/ a[4] < b[2] \/ a[2] > b[4])

-----------------------------------------------------------------------------
\* RENDERING

\* Faulty variant: another table of thresholds and widths.
line_width_for_zoom_wrong_thresholds(zz) ==
    IF zz <= 4 THEN 4 ELSE IF zz <= 6 THEN 3 ELSE IF zz <= 8 THEN 2 ELSE 1

line_width_for_zoom(zz) ==
    IF zz <= 4 THEN 3
    ELSE IF 5 <= zz /\ zz <= 6 THEN 2
    ELSE 1

\* ImageDraw.line: does the segment p-q, widened to `w` pixels, reach the
\* pixel area 0..TILE_SIZE-1 squared?  (separating axes: x, y, the normal)
SegmentReaches(p, q, w) ==
    LET h  == w \div 2
        lo == 0 - h
        hi == (TILE_SIZE - 1) + h
        side(cx, cy) == (q[1] - p[1]) * (cy - p[2]) - (q[2] - p[2]) * (cx - p[1])
        s  == {side(lo, lo), side(lo, hi), side(hi, lo), side(hi, hi)}
    IN  /\ Max2(p[1], q[1]) >= lo /\ Min2(p[1], q[1]) <= hi
        /\ Max2(p[2], q[2]) >= lo /\ Min2(p[2], q[2]) <= hi
        /\ ~(\A v \in s : v > 0)
        /\ ~(\A v \in s : v < 0)

\* draw.line(pixels, fill, width, joint): the buffer gains the stroke when
\* some segment of it reaches the pixel area, and is left as it was otherwise.
DrawLine(buf, pixels, fill, w) ==
    IF \E i \in 1..(Len(pixels) - 1) : SegmentReaches(pixels[i], pixels[i + 1], w)
    THEN Append(buf, [pixels |-> pixels, fill |-> fill, width |-> w])
    ELSE buf

draw_linestring(buf, line_coords, zz, x_tile, y_tile, color, w) ==
    LET pixels == [i \in 1..Len(line_coords) |->
                     latlon_to_tile_px(line_coords[i][2], line_coords[i][1],
                                       zz, x_tile, y_tile)]
    IN  IF Len(pixels) >= 2
        THEN DrawLine(buf, pixels, color \o <<255>>, w)
        ELSE buf

RECURSIVE draw_lines(_, _, _, _, _, _, _)
draw_lines(buf, lines, zz, x_tile, y_tile, color, w) ==
    IF lines = <<>> THEN buf
    ELSE draw_lines(draw_linestring(buf, Head(lines), zz, x_tile, y_tile, color, w),
                    Tail(lines), zz, x_tile, y_tile, color, w)

draw_feature_on_tile(buf, f, zz, x_tile, y_tile, color, w) ==
    IF geom_type(f) = "LineString"
    THEN draw_linestring(buf, line_coordinates(f), zz, x_tile, y_tile, color, w)
    ELSE IF geom_type(f) = "MultiLineString"
    THEN draw_lines(buf, multi_coordinates(f), zz, x_tile, y_tile, color, w)
    ELSE buf

-----------------------------------------------------------------------------
\* OUTPUT TREE
\*
\* A path under OUTPUT_ROOT is a sequence of names: <<z>> and <<z, x>> are
\* directories, <<z, x, y>> is the file z/x/y.png.  <<>> is the root itself.

Parent(p) == SubSeq(p, 1, Len(p) - 1)

NoFiles == <<>>

\* Faulty variant: it removes the files and leaves the directories.
remove_old_tiles_wrong_keeps_dirs(exists, ds, fs) ==
    [dirs |-> ds, files |-> NoFiles]

\* for root, dirs, files in os.walk(OUTPUT_ROOT, topdown=False):
\*     os.remove every file, os.rmdir every directory
\* The walk visits the root and every directory below it, children first.
remove_old_tiles(exists, ds, fs) ==
    IF exists
    THEN LET walked == {<<>>} \cup ds
             keptFiles == {p \in DOMAIN fs : Parent(p) \notin walked}
         IN  [dirs  |-> {d \in ds : Parent(d) \notin walked},
              files |-> [p \in keptFiles |-> fs[p]]]
    ELSE [dirs |-> ds, files |-> fs]

\* out_dir.mkdir(parents=True, exist_ok=True)
mkdir_parents(ds, zz, tx) == ds \cup {<<zz>>, <<zz, tx>>}

\* img.save(out_path): creates or overwrites the file
save(fs, path, content) == (path :> content) @@ fs

-----------------------------------------------------------------------------
\* Inputs

MaxFeatures == 2     \* features in a collection
MaxIds == 3          \* length of a propertyDisplayValue list
GridMax == 2         \* box coordinates 0..GridMax for bbox_intersects
MaxTripZoom == 3     \* the round trip takes every tile of zooms 0..MaxTripZoom

NoIds == <<>>
Line(pts, ids)   == Feature("present", "LineString", TRUE, pts, <<>>, TRUE, ids)
Multi(lns, ids)  == Feature("present", "MultiLineString", TRUE, <<>>, lns, TRUE, ids)

\* a diagonal across the corner shared by four zoom-10 tiles
FDiagonal == Line(<< <<0 - 77, 487>>, <<0 - 75, 485>> >>, <<"101">>)
\* two lines inside one zoom-10 tile, reaching up to its top edge
FMulti == Multi(<< << <<0 - 75, 485>>, <<0 - 75, 486>> >>,
                   << <<0 - 75, 485>>, <<0 - 74, 485>> >> >>,
                <<"999", "102", "101">>)
\* a LineString of one vertex: it has a box and nothing to draw
FOneVertex == Line(<< <<0 - 77, 487>> >>, <<"999">>)
\* the geometries without a bounding box
FEmptyLine    == Line(<<>>, <<"101">>)
FNoCoords     == Feature("present", "LineString", FALSE, <<>>, <<>>, TRUE, <<"101">>)
FEmptyMulti   == Multi(<< <<>>, <<>> >>, <<"101">>)
FMultiNoLines == Multi(<<>>, <<"101">>)
FPoint        == Feature("present", "Point", TRUE, <<>>, <<>>, TRUE, <<"101">>)
FNoType       == Feature("present", "None", TRUE, <<>>, <<>>, TRUE, <<"101">>)
FNoGeometry   == Feature("absent", "None", FALSE, <<>>, <<>>, FALSE, NoIds)
\* "geometry": null
FNullGeometry == Feature("null", "None", FALSE, <<>>, <<>>, TRUE, <<"101">>)

Drawable  == {FDiagonal, FMulti, FOneVertex}
Boxless   == {FEmptyLine, FNoCoords, FEmptyMulti, FMultiNoLines, FPoint,
              FNoType, FNoGeometry}
\* the features of main's collections
Pool == {FDiagonal, FMulti, FEmptyMulti, FNoGeometry, FNullGeometry}

SeqsUpTo(S, k) == UNION {[1..m -> S] : m \in 0..k}

Collections == SeqsUpTo(Pool, MaxFeatures)

\* The region main renders.  The configured box spans 131 x 142 tiles at
\* zoom 10; main is run on small boxes instead: the north-west corner block
\* of the configured box, a point in it, and a box lying over the north-west
\* corner of the projected square (where the clamps act).
Regions == { <<0 - 77, 485, 0 - 75, 487>>,
             <<0 - 75, 486, 0 - 75, 486>>,
             <<0 - (Half + 3), Half - 1, 1 - Half, Half + 3>> }

OldTile == << [pixels |-> << <<0, 0>>, <<9, 9>> >>, fill |-> <<1, 1, 1, 255>>,
               width |-> 1] >>

\* what OUTPUT_ROOT holds before the run: absent, empty, an earlier pyramid
OldTrees ==
    { [exists |-> FALSE, dirs |-> {}, files |-> NoFiles],
      [exists |-> TRUE,  dirs |-> {}, files |-> NoFiles],
      [exists |-> TRUE,
       dirs   |-> {<<3>>, <<3, 1>>, <<10>>, <<10, 473>>, <<10, 474>>, <<10, 9>>},
       files  |-> (<<3, 1, 1>> :> OldTile) @@ (<<10, 473, 268>> :> OldTile)
                  @@ (<<10, 474, 268>> :> OldTile) @@ (<<7>> :> OldTile)] }

IdPool == {"999", "101", "102"}
IdLists == SeqsUpTo(IdPool, MaxIds)
Boxes == (0..GridMax) \X (0..GridMax) \X (0..GridMax) \X (0..GridMax)
LonSamples == {0 - (Half + 3), 0 - Half, 0 - 77, 0, 1, Half - 1, Half, Half + 5}
LatSamples == {SouthPole, 0 - (Half + 3), 0 - Half, 0, 485, Half - 1, Half, Half + 3}
\* BBOX_LEFT, BBOX_BOTTOM, BBOX_RIGHT, BBOX_TOP at the grid points of their
\* zoom-10 tiles: columns 474..604, rows 268..409
ConfiguredBox == <<0 - 76, 205, 185, 487>>
\* (left, bottom, right, top) with left <= right and bottom <= top
RangeBoxes == {a \in LonSamples \X LatSamples \X LonSamples \X LatSamples :
                 a[1] <= a[3] /\ a[2] <= a[4]} \cup {ConfiguredBox}
ZoomArgs == 0..(MAX_ZOOM + 2)

NoCall == [op |-> "none", zz |-> 0, tx |-> 0, ty |-> 0, e |-> <<0, 0>>,
           a |-> None, b |-> None, f |-> FNoGeometry,
           out |-> None, raised |-> FALSE]

\* columns and rows of the round trip: all of a zoom up to MaxTripZoom, the
\* two at each end of a deeper zoom
TripTiles(k) ==
    IF k <= MaxTripZoom THEN 0..(2 ^ k - 1)
    ELSE {0, 1, 2 ^ k - 2, 2 ^ k - 1}

\* the calls: one function, its arguments
CallOf(c) ==
    \/ \E k \in ZoomArgs :
          c = [NoCall EXCEPT !.op = "line_width_for_zoom", !.zz = k]
    \/ \E ids \in IdLists :
          c = [NoCall EXCEPT !.op = "get_corridor_color", !.f = Line(<<>>, ids)]
    \/ c = [NoCall EXCEPT !.op = "get_corridor_color", !.f = FNoGeometry]
    \/ \E f \in Drawable \cup Boxless \cup {FNullGeometry} :
          c = [NoCall EXCEPT !.op = "feature_bbox", !.f = f]
    \/ \E a \in Boxes, b \in Boxes \cup {None} :
          c = [NoCall EXCEPT !.op = "bbox_intersects", !.a = a, !.b = b]
    \/ \E a \in RangeBoxes, k \in 0..MAX_ZOOM :
          c = [NoCall EXCEPT !.op = "bbox_to_tile_range", !.a = a, !.zz = k]
    \/ \E k \in 0..MAX_ZOOM :
          \E i \in TripTiles(k), j \in TripTiles(k) :
              \E et \in Rounding, eb \in Rounding :
                  c = [NoCall EXCEPT !.op = "tile_to_bbox", !.zz = k,
                                     !.tx = i, !.ty = j, !.e = <<et, eb>>]

-----------------------------------------------------------------------------
\* Initial states: a run of main on a loaded collection, or a direct call.

InitMain ==
    /\ pc = "start"
    /\ features \in Collections
    /\ region \in Regions
    /\ tree0 \in OldTrees
    /\ rootExists = tree0.exists /\ dirs = tree0.dirs /\ files = tree0.files
    /\ fn = NoCall

InitCall ==
    /\ pc = "call"
    /\ CallOf(fn)
    /\ features = <<>>
    /\ region = <<0, 0, 0, 0>>
    /\ tree0 = [exists |-> FALSE, dirs |-> {}, files |-> NoFiles]
    /\ rootExists = FALSE /\ dirs = {} /\ files = NoFiles

Init ==
    /\ InitMain \/ InitCall
    /\ feature_infos = <<>>
    /\ z = MIN_ZOOM /\ x = 0 /\ y = 0
    /\ range = <<0, 0, 0, 0>>
    /\ tile_bbox = <<0, 0, 0, 0>>
    /\ img = <<>>
    /\ width = 0
    /\ fi = 1
    /\ calls = 0

-----------------------------------------------------------------------------
\* MAIN

loopVars == <<z, x, y, range>>
tileVars == <<tile_bbox, img, width, fi, calls>>
treeVars == <<rootExists, dirs, files>>
inputVars == <<features, region, tree0, fn>>

\* data = load_geojson(); features = data.get("features", []); then the
\* index: feature_infos.append((f, feature_bbox(f))) for every feature.
BuildIndex ==
    /\ pc = "start"
    /\ IF \E i \in 1..Len(features) : RaisesAttributeError(features[i])
       THEN /\ pc' = "crashed"
            /\ UNCHANGED feature_infos
       ELSE /\ feature_infos' = [i \in 1..Len(features) |->
                                   [f |-> features[i],
                                    fbbox |-> feature_bbox(features[i])]]
            /\ pc' = "clear"
    /\ UNCHANGED <<loopVars, tileVars, treeVars, inputVars>>

\* if OUTPUT_ROOT.exists(): remove what is below it
ClearOldTiles ==
    /\ pc = "clear"
    /\ LET r == remove_old_tiles(rootExists, dirs, files)
       IN  dirs' = r.dirs /\ files' = r.files
    /\ pc' = "zoom"
    /\ UNCHANGED <<rootExists, feature_infos, loopVars, tileVars, inputVars>>

\* for z in range(MIN_ZOOM, MAX_ZOOM + 1): the zoom's tile range, and the
\* first (x, y) of the two loops over it
BeginZoom ==
    /\ pc = "zoom"
    /\ IF MathDomainError(region[2]) \/ MathDomainError(region[4])
       THEN /\ pc' = "crashed"
            /\ UNCHANGED <<x, y, range>>
       ELSE LET r == bbox_to_tile_range(region[1], region[2], region[3],
                                        region[4], z)
            IN  /\ range' = r
                /\ x' = r[1]
                /\ y' = r[3]
                /\ pc' = IF r[1] <= r[2] /\ r[3] <= r[4] THEN "tile"
                         ELSE IF z < MAX_ZOOM THEN "zoom" ELSE "done"
    /\ z' = IF pc' = "zoom" THEN z + 1 ELSE z
    /\ UNCHANGED <<feature_infos, tileVars, treeVars, inputVars>>

\* Faulty variant: it draws on the buffer of the tile before.
BeginTile_wrong_reuses_buffer ==
    /\ pc = "tile"
    /\ \E et \in Rounding, eb \in Rounding :
          tile_bbox' = tile_to_bbox(z, x, y, <<et, eb>>)
    /\ img' = img
    /\ width' = line_width_for_zoom(z)
    /\ fi' = 1
    /\ calls' = 0
    /\ pc' = IF feature_infos = <<>> THEN "emit" ELSE "feat"
    /\ UNCHANGED <<feature_infos, z, x, y, range, rootExists, dirs, files,
                   features, region, tree0, fn>>

\* tile_bbox = tile_to_bbox(z, x, y); a new transparent image; the width
BeginTile ==
    /\ pc = "tile"
    /\ \E et \in Rounding, eb \in Rounding :
          tile_bbox' = tile_to_bbox(z, x, y, <<et, eb>>)
    /\ img' = <<>>
    /\ width' = line_width_for_zoom(z)
    /\ fi' = 1
    /\ calls' = 0
    /\ pc' = IF feature_infos = <<>> THEN "emit" ELSE "feat"
    /\ UNCHANGED <<feature_infos, loopVars, treeVars, inputVars>>

NextFeature ==
    /\ fi' = fi + 1
    /\ pc' = IF fi = Len(feature_infos) THEN "emit" ELSE "feat"

\* if not bbox_intersects(tile_bbox, fbbox): continue
CullFeature ==
    /\ pc = "feat"
    /\ ~bbox_intersects(tile_bbox, feature_infos[fi].fbbox)
    /\ NextFeature
    /\ UNCHANGED <<img, calls, tile_bbox, width>>
    /\ UNCHANGED <<feature_infos, loopVars, treeVars, inputVars>>

\* Faulty variant: it draws every feature, culled or not.
DrawFeature_wrong_no_cull ==
    /\ pc = "feat"
    /\ LET f == feature_infos[fi].f
           color == get_corridor_color(f)
       IN  img' = draw_feature_on_tile(img, f, z, x, y, color, width)
    /\ calls' = calls + 1
    /\ NextFeature
    /\ UNCHANGED <<tile_bbox, width>>
    /\ UNCHANGED <<feature_infos, loopVars, treeVars, inputVars>>

\* color = get_corridor_color(f); draw_feature_on_tile(...)
DrawFeature ==
    /\ pc = "feat"
    /\ bbox_intersects(tile_bbox, feature_infos[fi].fbbox)
    /\ LET f == feature_infos[fi].f
           color == get_corridor_color(f)
       IN  img' = draw_feature_on_tile(img, f, z, x, y, color, width)
    /\ calls' = calls + 1
    /\ NextFeature
    /\ UNCHANGED <<tile_bbox, width>>
    /\ UNCHANGED <<feature_infos, loopVars, treeVars, inputVars>>

\* the next (x, y) of the zoom, the next zoom, or the end of the run
NextTile ==
    IF y < range[4] THEN
        /\ y' = y + 1
        /\ pc' = "tile"
        /\ UNCHANGED <<x, z, range>>
    ELSE IF x < range[2] THEN
        /\ x' = x + 1
        /\ y' = range[3]
        /\ pc' = "tile"
        /\ UNCHANGED <<z, range>>
    ELSE
        /\ z' = IF z < MAX_ZOOM THEN z + 1 ELSE z
        /\ pc' = IF z < MAX_ZOOM THEN "zoom" ELSE "done"
        /\ UNCHANGED <<x, y, range>>

\* if img.getbbox() is None: continue
SkipEmptyTile ==
    /\ pc = "emit"
    /\ img = <<>>
    /\ NextTile
    /\ UNCHANGED <<feature_infos, tileVars, treeVars, inputVars>>

\* Faulty variant: it saves the tile whether or not anything was drawn.
WriteTile_wrong_writes_empty ==
    /\ pc = "emit"
    /\ rootExists' = TRUE
    /\ dirs' = mkdir_parents(dirs, z, x)
    /\ files' = save(files, <<z, x, y>>, img)
    /\ NextTile
    /\ UNCHANGED <<feature_infos, tileVars, inputVars>>

\* out_dir.mkdir(parents=True, exist_ok=True); img.save(out_path)
WriteTile ==
    /\ pc = "emit"
    /\ img # <<>>
    /\ rootExists' = TRUE
    /\ dirs' = mkdir_parents(dirs, z, x)
    /\ files' = save(files, <<z, x, y>>, img)
    /\ NextTile
    /\ UNCHANGED <<feature_infos, tileVars, inputVars>>

-----------------------------------------------------------------------------
\* Direct calls of the module's functions

mainVars == <<features, region, tree0, feature_infos, loopVars, tileVars,
              treeVars>>

Return(out, raised) ==
    /\ fn' = [fn EXCEPT !.out = out, !.raised = raised]
    /\ pc' = "returned"
    /\ UNCHANGED mainVars

CallLineWidthForZoom ==
    /\ pc = "call" /\ fn.op = "line_width_for_zoom"
    /\ Return(<<line_width_for_zoom(fn.zz)>>, FALSE)

CallGetCorridorColor ==
    /\ pc = "call" /\ fn.op = "get_corridor_color"
    /\ Return(get_corridor_color(fn.f), FALSE)

CallFeatureBBox ==
    /\ pc = "call" /\ fn.op = "feature_bbox"
    /\ IF RaisesAttributeError(fn.f)
       THEN Return(None, TRUE)
       ELSE Return(feature_bbox(fn.f), FALSE)

CallBBoxIntersects ==
    /\ pc = "call" /\ fn.op = "bbox_intersects"
    /\ Return(<<bbox_intersects(fn.a, fn.b)>>, FALSE)

CallBBoxToTileRange ==
    /\ pc = "call" /\ fn.op = "bbox_to_tile_range"
    /\ IF MathDomainError(fn.a[2]) \/ MathDomainError(fn.a[4])
       THEN Return(None, TRUE)
       ELSE Return(bbox_to_tile_range(fn.a[1], fn.a[2], fn.a[3], fn.a[4], fn.zz),
                   FALSE)

\* tile_to_bbox, and its box handed to bbox_to_tile_range at the same zoom
CallTileToBBox ==
    /\ pc = "call" /\ fn.op = "tile_to_bbox"
    /\ LET box == tile_to_bbox(fn.zz, fn.tx, fn.ty, fn.e)
       IN  /\ fn' = [fn EXCEPT !.a = box,
                               !.out = bbox_to_tile_range(box[1], box[2], box[3],
                                                          box[4], fn.zz)]
           /\ pc' = "returned"
           /\ UNCHANGED mainVars

Next ==
    \/ BuildIndex
    \/ ClearOldTiles
    \/ BeginZoom
    \/ BeginTile
    \/ CullFeature
    \/ DrawFeature
    \/ SkipEmptyTile
    \/ WriteTile
    \/ CallLineWidthForZoom
    \/ CallGetCorridorColor
    \/ CallFeatureBBox
    \/ CallBBoxIntersects
    \/ CallBBoxToTileRange
    \/ CallTileToBBox

Spec == Init /\ [][Next]_vars

-----------------------------------------------------------------------------
\* Properties

Returned(op) == pc = "returned" /\ fn.op = op
InTile == pc \in {"feat", "emit"}
AfterClear == pc \in {"zoom", "tile", "feat", "emit", "done"}
Strokes(buf) == {buf[i] : i \in 1..Len(buf)}

\* Every file of the tree is a tile of main's zoom range.
TilePaths == {p \in DOMAIN files : Len(p) = 3}

\* the width table of the specification
ClaimedWidth(zz) ==
    IF zz <= 4 THEN 4 ELSE IF zz <= 6 THEN 3 ELSE IF zz <= 8 THEN 2 ELSE 1

\* the width table of the source, in closed form
SourceWidth(zz) == 3 - (IF zz >= 5 THEN 1 ELSE 0) - (IF zz >= 7 THEN 1 ELSE 0)

-----------------------------------------------------------------------------
\* the boxes are disjoint, in the words of the specification
Disjoint(a, b) ==
    \/ b = None
    \/ a[3] < b[1] \/ a[1] > b[3] \/ a[4] < b[2] \/ a[2] > b[4]

NoFeatureIntersects ==
    \A i \in 1..Len(feature_infos) : Disjoint(tile_bbox, feature_infos[i].fbbox)

ChangedFileIsCurrentTile ==
    pc \in {"tile", "feat", "emit"} =>
        \A p \in DOMAIN files' :
            (p \notin DOMAIN files \/ files'[p] # files[p]) =>
                /\ pc = "emit" /\ p = <<z, x, y>>
                /\ fi > Len(feature_infos) \/ feature_infos = <<>>
                /\ files'[p] = img
                /\ \E st \in Strokes(img) : st.fill[4] # 0

UntouchedTileLeavesTree ==
    (pc = "emit" /\ NoFeatureIntersects) =>
        (files' = files /\ dirs' = dirs /\ rootExists' = rootExists)

\* C2: during the tile loop a file appears or changes only as the file of the
\* current tile, after all features were handled, with a buffer that holds a
\* pixel of non-zero alpha; a tile no feature box intersects is not written
\* and no directory is made for it.
C2_SparseOutput ==
    /\ [][ChangedFileIsCurrentTile]_vars
    /\ [][UntouchedTileLeavesTree]_vars
    /\ [](AfterClear => \A p \in DOMAIN files : files[p] # <<>>)

\* a tile that no feature box intersects is at its emptiness test, in a run
\* that has features with boxes and has already written another tile
C2_Witness ==
    /\ pc = "emit" /\ NoFeatureIntersects /\ img = <<>>
    /\ \E i \in 1..Len(feature_infos) : feature_infos[i].fbbox # None
    /\ DOMAIN files # {}

-----------------------------------------------------------------------------
\* the colour of the lowest-index recognised ID, the default without one
LowestRecognised(ids) ==
    LET hit == {i \in 1..Len(ids) : ids[i] \in DOMAIN RFC_COLORS}
    IN  IF hit = {} THEN DEFAULT_COLOR ELSE RFC_COLORS[ids[MinOf(hit)]]

IdsOf(f) == IF f.hasIds THEN f.ids ELSE <<>>

\* C3: the colour resolved for a feature is that of the first ID of its list
\* that is a key of the style table, and the default colour when none is or
\* the list is empty or absent; ["999","101"] gives the colour of "101" and
\* ["999"] the default.  Every stroke drawn carries the colour so resolved.
C3_FirstMatchWins ==
    /\ Returned("get_corridor_color") =>
          /\ fn.out = LowestRecognised(IdsOf(fn.f))
          /\ IdsOf(fn.f) = <<"999", "101">> => fn.out = <<195, 34, 40>>
          /\ IdsOf(fn.f) = <<"999">> => fn.out = DEFAULT_COLOR
          /\ IdsOf(fn.f) = <<>> => fn.out = DEFAULT_COLOR
    /\ InTile =>
          \A st \in Strokes(img) :
              \E i \in 1..Len(feature_infos) :
                  /\ i < fi \/ pc = "emit"
                  /\ st.fill = LowestRecognised(IdsOf(feature_infos[i].f)) \o <<255>>

\* a list with two recognised IDs after an unknown one resolved to the first
C3_Witness ==
    /\ Returned("get_corridor_color")
    /\ fn.f.ids = <<"999", "102", "101">>
    /\ fn.out = <<14, 157, 217>>

-----------------------------------------------------------------------------
WellFormed(a) == a[1] <= a[3] /\ a[2] <= a[4]
Inside(px, py, a) == a[1] <= px /\ px <= a[3] /\ a[2] <= py /\ py <= a[4]

\* C4: for present boxes a and b, bbox_intersects(a, b) is false exactly when
\* a.right < b.left or a.left > b.right or a.top < b.bottom or
\* a.bottom > b.top; boxes that share only an edge or a corner intersect;
\* the result is the same for (b, a); two well-formed boxes intersect exactly
\* when some point lies in both.
C4_Intersects ==
    (Returned("bbox_intersects") /\ fn.b # None) =>
        LET a == fn.a
            b == fn.b
        IN  /\ fn.out = <<~(a[3] < b[1] \/ a[1] > b[3] \/ a[4] < b[2] \/ a[2] > b[4])>>
            /\ fn.out = <<bbox_intersects(b, a)>>
            /\ (WellFormed(a) /\ WellFormed(b)) =>
                  fn.out = <<\E px \in 0..GridMax, py \in 0..GridMax :
                                Inside(px, py, a) /\ Inside(px, py, b)>>

\* two boxes of positive size that share one corner point only
C4_Witness ==
    /\ Returned("bbox_intersects") /\ fn.b # None
    /\ fn.a[1] < fn.a[3] /\ fn.a[2] < fn.a[4]
    /\ fn.b[1] < fn.b[3] /\ fn.b[2] < fn.b[4]
    /\ fn.a[3] = fn.b[1] /\ fn.a[4] = fn.b[2]
    /\ fn.out = <<TRUE>>

-----------------------------------------------------------------------------
\* the point (lon, lat) lies in tile (tx, ty) of zoom zz
PointInTile(lon, lat, zz, tx, ty) ==
    LET n == 2 ^ zz
    IN  /\ (tx * World) \div n - Half <= lon
        /\ lon < ((tx + 1) * World) \div n - Half
        /\ Half - ((ty + 1) * World) \div n < lat
        /\ lat <= Half - (ty * World) \div n

InSquare(lon, lat) ==
    0 - Half <= lon /\ lon < Half /\ 0 - Half < lat /\ lat <= Half

RangeWithinZoom(r, zz) ==
    LET n == 2 ^ zz
    IN  /\ 0 <= r[1] /\ r[1] <= r[2] /\ r[2] <= n - 1
        /\ 0 <= r[3] /\ r[3] <= r[4] /\ r[4] <= n - 1

\* every tile main renders, and every file it wrote, is a valid tile
MainTilesValid ==
    /\ pc \in {"tile", "feat", "emit"} =>
          /\ MIN_ZOOM <= z /\ z <= MAX_ZOOM
          /\ 0 <= x /\ x < 2 ^ z /\ 0 <= y /\ y < 2 ^ z
          /\ range[1] <= x /\ x <= range[2] /\ range[3] <= y /\ y <= range[4]
    /\ AfterClear =>
          \A p \in DOMAIN files :
              /\ Len(p) = 3
              /\ MIN_ZOOM <= p[1] /\ p[1] <= MAX_ZOOM
              /\ 0 <= p[2] /\ p[2] < 2 ^ p[1] /\ 0 <= p[3] /\ p[3] < 2 ^ p[1]

CornersPlaced(a, r, zz) ==
    /\ InSquare(a[1], a[2]) => PointInTile(a[1], a[2], zz, r[1], r[4])
    /\ InSquare(a[3], a[4]) => PointInTile(a[3], a[4], zz, r[2], r[3])

\* C5, as claimed: for every zoom and every box with left <= right and
\* bottom <= top, bbox_to_tile_range returns 0 <= xMin <= xMax <= 2^z - 1 and
\* 0 <= yMin <= yMax <= 2^z - 1, xMin and yMax from (left, bottom), xMax and
\* yMin from (right, top); every tile main renders or writes is valid.
C5_Original ==
    /\ Returned("bbox_to_tile_range") =>
          /\ ~fn.raised
          /\ RangeWithinZoom(fn.out, fn.zz)
          /\ CornersPlaced(fn.a, fn.out, fn.zz)
    /\ MainTilesValid

\* C5, amended: the same for every box whose latitudes the projection can be
\* evaluated at; for a box reaching the south pole the function raises
\* (math domain error) and returns no range.
C5_Amended ==
    /\ Returned("bbox_to_tile_range") =>
          /\ fn.raised <=> fn.a[2] = SouthPole
          /\ ~fn.raised =>
                /\ RangeWithinZoom(fn.out, fn.zz)
                /\ CornersPlaced(fn.a, fn.out, fn.zz)
    /\ MainTilesValid

\* a point box at the deepest zoom: one tile, the one that holds the point
C5_Witness ==
    /\ Returned("bbox_to_tile_range") /\ ~fn.raised
    /\ fn.a = <<0 - 77, 485, 0 - 77, 485>> /\ fn.zz = MAX_ZOOM
    /\ fn.out = <<473, 473, 269, 269>>

-----------------------------------------------------------------------------
\* C6, as claimed: the box of tile (x, y) handed back to bbox_to_tile_range
\* at the same zoom gives xMin = xMax = x and yMin = yMax = y.
C6_Original ==
    Returned("tile_to_bbox") => fn.out = <<fn.tx, fn.tx, fn.ty, fn.ty>>

\* C6, amended: it gives a range that holds (x, y) and reaches at most one
\* tile further: xMin = x, xMax = min(x + 1, 2^z - 1), yMin is y or
\* max(y - 1, 0), yMax is y or min(y + 1, 2^z - 1).
C6_Amended ==
    Returned("tile_to_bbox") =>
        LET n == 2 ^ fn.zz
            r == fn.out
        IN  /\ r[1] = fn.tx
            /\ r[2] = Min2(fn.tx + 1, n - 1)
            /\ r[3] \in {Max2(fn.ty - 1, 0), fn.ty}
            /\ r[4] \in {fn.ty, Min2(fn.ty + 1, n - 1)}

\* an inner tile of zoom 2 whose box comes back as a block of 2 x 3 tiles
C6_Witness ==
    /\ Returned("tile_to_bbox")
    /\ fn.zz = 2 /\ fn.tx = 1 /\ fn.ty = 1
    /\ fn.out = <<1, 2, 0, 2>>

-----------------------------------------------------------------------------
\* the geometries the claim lists: a type other than the two line types, no
\* geometry, no coordinates or empty ones, a MultiLineString of empty lines
Malformed(f) ==
    \/ f.geometry = "absent"
    \/ f.geometry = "present" /\ f.gtype \notin {"LineString", "MultiLineString"}
    \/ f.geometry = "present" /\ ~f.hasCoords
    \/ f.geometry = "present" /\ f.gtype = "LineString" /\ f.line = <<>>
    \/ f.geometry = "present" /\ f.gtype = "MultiLineString"
          /\ \A i \in 1..Len(f.lines) : f.lines[i] = <<>>

MalformedHasNoBox ==
    /\ \A i \in 1..Len(feature_infos) :
          Malformed(feature_infos[i].f) => feature_infos[i].fbbox = None
    /\ pc = "crashed" =>
          \E i \in 1..Len(features) :
              features[i].geometry = "null" /\ ~Malformed(features[i])
    /\ (Returned("feature_bbox") /\ Malformed(fn.f)) =>
          (~fn.raised /\ fn.out = None)
    /\ (Returned("bbox_intersects") /\ fn.b = None) => fn.out = <<FALSE>>

MalformedNotDrawn ==
    (pc = "feat" /\ Malformed(feature_infos[fi].f)) =>
        (img' = img /\ calls' = calls /\ pc' # "crashed")

-----------------------------------------------------------------------------
CulledLeavesBuffer ==
    (pc = "feat" /\ Disjoint(tile_bbox, feature_infos[fi].fbbox)) =>
        (img' = img /\ calls' = calls)

DrawnOnlyIntersecting ==
    InTile =>
        LET seen == IF pc = "emit" THEN Len(feature_infos) ELSE fi - 1
        IN  calls = Cardinality({i \in 1..seen :
                        ~Disjoint(tile_bbox, feature_infos[i].fbbox)})

\* C8: when a feature's box does not intersect the tile's box, the draw step
\* is not invoked for the tile and the buffer is left as it was; the draw
\* step has run exactly for the features whose boxes intersect.
C8_Culling ==
    /\ [][CulledLeavesBuffer]_vars
    /\ []DrawnOnlyIntersecting

\* a feature with a box and two lines to draw was passed over for a tile
\* beside it: nothing was drawn
C8_Witness ==
    /\ pc = "emit" /\ Len(feature_infos) = 1
    /\ feature_infos[1].f = FMulti
    /\ Disjoint(tile_bbox, feature_infos[1].fbbox)
    /\ calls = 0 /\ img = <<>>

-----------------------------------------------------------------------------
\* The buffer of tile (zz, tx, ty) with box tb after the first k entries of
\* an index, as a function of these alone.
RECURSIVE TileImage(_, _, _, _, _, _)
TileImage(infos, k, zz, tx, ty, tb) ==
    IF k = 0 THEN <<>>
    ELSE LET before == TileImage(infos, k - 1, zz, tx, ty, tb)
             f == infos[k].f
         IN  IF Disjoint(tb, infos[k].fbbox) THEN before
             ELSE draw_feature_on_tile(before, f, zz, tx, ty,
                                       get_corridor_color(f),
                                       line_width_for_zoom(zz))

IndexOf(fs) ==
    [i \in 1..Len(fs) |-> [f |-> fs[i], fbbox |-> feature_bbox(fs[i])]]

\* the images tile p can get, over the rounding of its box
ImagesOf(p) ==
    {TileImage(IndexOf(features), Len(features), p[1], p[2], p[3],
               tile_to_bbox(p[1], p[2], p[3], <<et, eb>>)) :
        et \in Rounding, eb \in Rounding}

\* the tiles main enumerates
RunTiles ==
    UNION {LET r == bbox_to_tile_range(region[1], region[2], region[3],
                                       region[4], zz)
           IN  {<<zz, tx, ty>> : tx \in r[1]..r[2], ty \in r[3]..r[4]} :
           zz \in MIN_ZOOM..MAX_ZOOM}

\* p is one of the tiles main enumerates
InRun(p) ==
    /\ Len(p) = 3 /\ MIN_ZOOM <= p[1] /\ p[1] <= MAX_ZOOM
    /\ LET r == bbox_to_tile_range(region[1], region[2], region[3],
                                   region[4], p[1])
       IN  r[1] <= p[2] /\ p[2] <= r[2] /\ r[3] <= p[3] /\ p[3] <= r[4]

TileDependsOnlyOnIndex ==
    /\ pc \in {"clear", "zoom", "tile", "feat", "emit", "done"} =>
          feature_infos = IndexOf(features)
    /\ InTile =>
          LET seen == IF pc = "emit" THEN Len(feature_infos) ELSE fi - 1
          IN  /\ img = TileImage(feature_infos, seen, z, x, y, tile_bbox)
              /\ \E et \in Rounding, eb \in Rounding :
                    tile_bbox = tile_to_bbox(z, x, y, <<et, eb>>)
    /\ pc = "done" =>
          \A p \in DOMAIN files : InRun(p) /\ files[p] \in ImagesOf(p)

\* a file written is the image of its own tile
WrittenIsOwnImage ==
    (pc = "emit" /\ files' # files) =>
        files' = save(files, <<z, x, y>>,
                      TileImage(IndexOf(features), Len(features), z, x, y,
                                tile_bbox))

IndexIsFrozen == pc # "start" => feature_infos' = feature_infos
BufferIsFresh == pc = "tile" => img' = <<>>

-----------------------------------------------------------------------------
ClearStep ==
    pc = "clear" =>
        IF rootExists
        THEN dirs' = {} /\ DOMAIN files' = {} /\ rootExists'
        ELSE dirs' = dirs /\ files' = files /\ ~rootExists' /\ pc' = "zoom"

\* nothing of the tree the run started with is left, unless this run wrote it
TreeIsThisRuns ==
    AfterClear =>
        /\ \A p \in DOMAIN files :
              InRun(p) /\ files[p] # <<>> /\ files[p] # OldTile
        /\ dirs = UNION {{<<p[1]>>, <<p[1], p[2]>>} : p \in DOMAIN files}
        /\ DOMAIN files # {} => rootExists

RunTilesAllWritten ==
    pc = "done" =>
        \A p \in RunTiles :
            /\ (\A im \in ImagesOf(p) : im # <<>>) => p \in DOMAIN files
            /\ (\A im \in ImagesOf(p) : im = <<>>) => p \notin DOMAIN files

\* C10: the clear step empties an existing output root of every file and
\* directory and changes nothing when the root does not exist; after it, and
\* at the end of the run, the files under the root are the non-empty tiles
\* of this run and the directories are theirs, whatever the root held before.
C10_ClearedThenRebuilt ==
    /\ [][ClearStep]_vars
    /\ [](TreeIsThisRuns /\ RunTilesAllWritten)

\* a run that started on an earlier pyramid has ended: the stale tile and
\* the stale directories are gone, the tile drawn again is this run's
C10_Witness ==
    /\ pc = "done"
    /\ <<10, 474, 268>> \in DOMAIN tree0.files
    /\ <<10, 474, 268>> \notin DOMAIN files
    /\ <<3>> \in tree0.dirs /\ <<3>> \notin dirs
    /\ <<10, 473, 268>> \in DOMAIN files
    /\ files[<<10, 473, 268>>] # tree0.files[<<10, 473, 268>>]

====
